---- MODULE Spec2Model ----
(***************************************************************************)
(* A model of src/src/components/SignDetection.tsx.                        *)
(*                                                                         *)
(* The file holds two revisions of the SignDetection component:            *)
(*   rev = 1  lines 19-448   (remote detection, MediaPipe loaded first)    *)
(*   rev = 2  lines 450-1013 (local classifyGesture, camera first)         *)
(* The variable rev says which of the two is mounted.                      *)
(*                                                                         *)
(* Strings that the code splits or joins are sequences of atoms: an atom   *)
(* is the one-character string " " or a maximal run of non-space           *)
(* characters.  Landmark coordinates are integers on a grid whose unit is  *)
(* 0.05 of the normalised image size.                                      *)
(***************************************************************************)
EXTENDS Integers, Sequences, FiniteSets, TLC

VARIABLES
  rev,              \* which revision of the component is mounted
  slots,            \* how many invocations of startDetection may overlap
  shown,            \* the hands shown to the camera
  language,         \* prop language of the latest render
  isActive, isLoading, error, detectedText, currentGesture, confidence,
                    \* useState cells
  streamRef, animationRef, handsRef, lastGestureRef, gestureCountRef,
  windowHands,      \* (window as any).Hands is defined
  inv,              \* the invocations of startDetection, by slot
  translating,      \* processGesture calls awaiting translate-text
  onDetectionArg,   \* history: the argument of the last onDetection call, if
                    \* the prop is provided
  last,             \* history: the handler that ran last
  streak,           \* history: the run of equal classification results
  sinceCommit,      \* history: processGesture calls since the last commit
  frame, result     \* the input and output of a classifyGesture call

vars == <<rev, slots, shown, language, isActive, isLoading, error,
          detectedText, currentGesture, confidence, streamRef,
          animationRef, handsRef, lastGestureRef, gestureCountRef,
          windowHands, inv, translating, onDetectionArg, last, streak,
          sinceCommit, frame, result>>

----------------------------------------------------------------------------
(* Bounds of the model *)

MaxCoord == 2
MaxLenDelta == 1
MaxSlots == 2
MaxTranslating == 2
MaxTextLen == 5

(* Program constants *)

NumLandmarks == 21
TouchDist == 2
StableCount == 3

----------------------------------------------------------------------------
(* Strings *)

Space == " "

\* The atoms of a gesture label.
Atoms(s) ==
  CASE s = "I Love You" -> <<"I", Space, "Love", Space, "You">>
    [] s = "Thank You"  -> <<"Thank", Space, "You">>
    [] s = ""           -> <<>>
    [] OTHER            -> <<s>>

\* prev.split(' ').filter(Boolean)
SplitWords(text) == SelectSeq(text, LAMBDA a : a # Space)

\* `${prev} ${displayText}`
JoinSpace(prev, displayText) == prev \o <<Space>> \o displayText

----------------------------------------------------------------------------
(* classifyGesture *)

NoMatch == [matched |-> FALSE, gesture |-> "", confidence |-> 0]

Match(g, c) == [matched |-> TRUE, gesture |-> g, confidence |-> c]

\* landmarks[i], with the code's zero-based index
LM(landmarks, i) == landmarks[i + 1]

X(p) == p[1]

Y(p) == p[2]

thumbExtended(landmarks) == X(LM(landmarks, 4)) < X(LM(landmarks, 3))

indexExtended(landmarks) == Y(LM(landmarks, 8)) < Y(LM(landmarks, 5))

middleExtended(landmarks) == Y(LM(landmarks, 12)) < Y(LM(landmarks, 9))

ringExtended(landmarks) == Y(LM(landmarks, 16)) < Y(LM(landmarks, 13))

pinkyExtended(landmarks) == Y(LM(landmarks, 20)) < Y(LM(landmarks, 17))

extendedCount(landmarks) ==
  Cardinality({k \in 1..4 :
     <<indexExtended(landmarks), middleExtended(landmarks),
       ringExtended(landmarks), pinkyExtended(landmarks)>>[k]})

\* thumbIndexDist < 0.1, with both sides squared
thumbIndexTouch(landmarks) ==
  LET thumbTip == LM(landmarks, 4)
      indexTip == LM(landmarks, 8)
      dx == X(thumbTip) - X(indexTip)
      dy == Y(thumbTip) - Y(indexTip)
  IN  dx * dx + dy * dy < TouchDist * TouchDist

\* Mutant: the rule for "1" also asks for a folded thumb, as the rule for
\* "4" does.
classifyRules_oneNeedsFoldedThumb(landmarks) ==
  LET t == thumbExtended(landmarks)
      i == indexExtended(landmarks)
      m == middleExtended(landmarks)
      r == ringExtended(landmarks)
      p == pinkyExtended(landmarks)
      n == extendedCount(landmarks)
  IN  IF t /\ n = 0 THEN Match("Yes", 85)
      ELSE IF i /\ m /\ ~r /\ ~p THEN Match("2", 82)
      ELSE IF i /\ ~m /\ ~r /\ ~p /\ ~t THEN Match("1", 85)
      ELSE IF i /\ m /\ r /\ ~p THEN Match("3", 80)
      ELSE IF i /\ m /\ r /\ p /\ ~t THEN Match("4", 80)
      ELSE IF t /\ i /\ m /\ r /\ p THEN Match("Hello", 88)
      ELSE IF t /\ i /\ ~m /\ ~r /\ p THEN Match("I Love You", 85)
      ELSE IF ~t /\ n = 0 THEN Match("No", 80)
      ELSE IF thumbIndexTouch(landmarks) /\ m /\ r /\ p
           THEN Match("Thank You", 82)
      ELSE NoMatch

classifyRules(landmarks) ==
  LET t == thumbExtended(landmarks)
      i == indexExtended(landmarks)
      m == middleExtended(landmarks)
      r == ringExtended(landmarks)
      p == pinkyExtended(landmarks)
      n == extendedCount(landmarks)
  IN  IF t /\ n = 0 THEN Match("Yes", 85)
      ELSE IF i /\ m /\ ~r /\ ~p THEN Match("2", 82)
      ELSE IF i /\ ~m /\ ~r /\ ~p THEN Match("1", 85)
      ELSE IF i /\ m /\ r /\ ~p THEN Match("3", 80)
      ELSE IF i /\ m /\ r /\ p /\ ~t THEN Match("4", 80)
      ELSE IF t /\ i /\ m /\ r /\ p THEN Match("Hello", 88)
      ELSE IF t /\ i /\ ~m /\ ~r /\ p THEN Match("I Love You", 85)
      ELSE IF ~t /\ n = 0 THEN Match("No", 80)
      ELSE IF thumbIndexTouch(landmarks) /\ m /\ r /\ p
           THEN Match("Thank You", 82)
      ELSE NoMatch

\* Mutant: the length test of line 464 written as "fewer than 21".
classifyGesture_atLeast21(landmarks) ==
  IF Len(landmarks) < NumLandmarks THEN NoMatch ELSE classifyRules(landmarks)

classifyGesture(landmarks) ==
  IF Len(landmarks) # NumLandmarks THEN NoMatch ELSE classifyRules(landmarks)

----------------------------------------------------------------------------
(* Landmark inputs *)

Coords == 0..MaxCoord

\* The row of the knuckles and the column of the thumb's IP joint.
Mid == MaxCoord \div 2

\* A hand of n landmarks: the thumb tip at (x4, y4), the index tip at
\* (x8, y8), the other tips at heights y12, y16, y20; z is lm.z || 0.
MkFrame(n, x4, y4, x8, y8, y12, y16, y20) ==
  [k \in 1..n |->
     CASE k - 1 = 4  -> <<x4, y4, 0>>
       [] k - 1 = 8  -> <<x8, y8, 0>>
       [] k - 1 = 12 -> <<Mid, y12, 0>>
       [] k - 1 = 16 -> <<Mid, y16, 0>>
       [] k - 1 = 20 -> <<Mid, y20, 0>>
       [] OTHER      -> <<Mid, Mid, 0>>]

Frames21 ==
  {MkFrame(NumLandmarks, x4, y4, x8, y8, y12, y16, y20) :
     x4 \in Coords, y4 \in Coords, x8 \in Coords, y8 \in Coords,
     y12 \in Coords, y16 \in Coords, y20 \in Coords}

OtherLengths ==
  {0} \cup (((NumLandmarks - MaxLenDelta)..(NumLandmarks + MaxLenDelta))
            \ {NumLandmarks})

FramesOtherLength ==
  {MkFrame(n, x4, Mid, Mid, y8, MaxCoord, MaxCoord, y20) :
     n \in OtherLengths, x4 \in Coords, y8 \in Coords, y20 \in Coords}

ClassifyInputs == Frames21 \cup FramesOtherLength

\* The hands shown to the camera while the component runs.
ThumbsUp ==
  MkFrame(NumLandmarks, 0, Mid, Mid, MaxCoord, MaxCoord, MaxCoord, MaxCoord)

LoveYou == MkFrame(NumLandmarks, 0, Mid, Mid, 0, MaxCoord, MaxCoord, 0)

MiddleOnly ==
  MkFrame(NumLandmarks, MaxCoord, Mid, Mid, MaxCoord, 0, MaxCoord, MaxCoord)

CameraFrames == {ThumbsUp, LoveYou, MiddleOnly}

----------------------------------------------------------------------------
(* The component's state *)

Languages == {"en", "ta"}

NULL == "<null>"

DeniedMsg ==
  IF rev = 1
  THEN "Camera access denied. Please allow camera access in your browser settings."
  ELSE "Camera access denied. Please allow camera access in your browser settings and refresh the page."

NotFoundMsg == "No camera found. Please connect a camera and try again."

\* Mutant: the error of line 94 is passed on as it is, not replaced.
HandTrackingMsg_inner == "MediaPipe Hands not available"

HandTrackingMsg == "Failed to load hand tracking. Please try again."

VideoFailedMsg == "Video failed to load"

\* The message of a getUserMedia rejection that is neither of the two above.
NotReadableMsg == "Could not start video source"

\* What getUserMedia answers: a stream, or the name of the DOMException.
CameraOutcomes == {"ok", "NotAllowedError", "NotFoundError", "NotReadableError"}

\* Mutant: the two names are tested the other way round.
ErrorText_swapped(name, message) ==
  IF name = "NotFoundError" THEN DeniedMsg
  ELSE IF name = "NotAllowedError" THEN NotFoundMsg
  ELSE message

\* The string the catch block of startDetection sets for an Error named name.
ErrorText(name, message) ==
  IF name = "NotAllowedError" THEN DeniedMsg
  ELSE IF name = "NotFoundError" THEN NotFoundMsg
  ELSE message

Slots == 1..slots

IdleSlot == [pc |-> "idle", lang |-> "en", sentTo |-> 0, cam |-> FALSE]

DoneSlot(i) == [inv[i] EXCEPT !.pc = "done", !.sentTo = 0]

\* A slot holds no running invocation and no hands instance still in use.
IsFree(i) ==
  /\ inv[i].pc \in {"idle", "done"}
  /\ handsRef # i
  /\ \A j \in Slots : inv[j].sentTo # i

HasFreeSlot == \E i \in Slots : IsFree(i)

FreeSlot == CHOOSE i \in Slots : IsFree(i) /\ \A j \in Slots : IsFree(j) => i <= j

\* The labels classifyGesture gives the hands shown to the camera.
CameraGestures ==
  {classifyGesture(lm).gesture : lm \in {f \in CameraFrames : classifyGesture(f).matched}}

\* A pending translate-text call: the gesture and the target language.
TranslateKeys == CameraGestures \X (Languages \ {"en"})

NotCalled == [called |-> FALSE, text |-> <<>>]

CalledWith(text) == [called |-> TRUE, text |-> text]

\* The handler that ran last; a commit (a gesture that passed the counter of
\* processGesture) comes with the gesture, whether translate-text was called
\* and the number of processGesture calls since the commit before (-1: none).
Ev(op) == [op |-> op, gesture |-> "", translate |-> FALSE, gap |-> 0]

\* The latest gesture detected, the number of calls of processGesture in a
\* row with it (det) and the number of classifications in a row with it (all).
NoStreak == [gesture |-> "", det |-> 0, all |-> 0]

ComponentInit ==
  /\ language \in Languages
  /\ isActive = FALSE
  /\ isLoading = FALSE
  /\ error = NULL
  /\ detectedText = <<>>
  /\ currentGesture = ""
  /\ confidence = 0
  /\ streamRef = "null"
  /\ animationRef = 0
  /\ handsRef = 0
  /\ lastGestureRef = ""
  /\ gestureCountRef = 0
  /\ windowHands = FALSE
  /\ inv = [i \in 1..MaxSlots |-> IdleSlot]
  /\ translating = [k \in TranslateKeys |-> 0]
  /\ onDetectionArg = NotCalled
  /\ last = Ev("init")
  /\ streak = NoStreak
  /\ sinceCommit = -1

\* Every overlap of invocations the bound allows, one gesture shown.
Init ==
  /\ rev \in {1, 2}
  /\ slots = MaxSlots
  /\ shown = {ThumbsUp}
  /\ ComponentInit
  /\ frame = <<>>
  /\ result = NoMatch

gestureVars ==
  <<detectedText, currentGesture, confidence, lastGestureRef, gestureCountRef,
    translating, onDetectionArg, streak, sinceCommit>>

propVars == <<rev, slots, shown, language, frame, result>>

----------------------------------------------------------------------------
(* startDetection, revision 2 (lines 643-811) *)

\* Mutant: the library is loaded before the camera is asked for, as in
\* revision 1.
startDetection_libraryFirst ==
  /\ rev = 2
  /\ ~isActive /\ ~isLoading
  /\ HasFreeSlot
  /\ error' = NULL
  /\ isLoading' = TRUE
  /\ inv' = [inv EXCEPT ![FreeSlot] =
               [pc |-> "script", lang |-> language, sentTo |-> 0,
                cam |-> FALSE]]
  /\ last' = Ev("other")
  /\ UNCHANGED <<propVars, gestureVars, isActive, streamRef, animationRef,
                 handsRef, windowHands>>

\* The click on "Start Detection": lines 644-655, up to the first await.
startDetection ==
  /\ rev = 2
  /\ ~isActive /\ ~isLoading
  /\ HasFreeSlot
  /\ error' = NULL
  /\ isLoading' = TRUE
  /\ inv' = [inv EXCEPT ![FreeSlot] =
               [pc |-> "getUserMedia", lang |-> language, sentTo |-> 0,
                cam |-> TRUE]]
  /\ last' = Ev("other")
  /\ UNCHANGED <<propVars, gestureVars, isActive, streamRef, animationRef,
                 handsRef, windowHands>>

\* getUserMedia settles: lines 657-672 on a stream, lines 798-810 otherwise.
getUserMediaDone(i, outcome) ==
  /\ rev = 2
  /\ inv[i].pc = "getUserMedia"
  /\ IF outcome = "ok"
     THEN /\ streamRef' = "active"
          /\ inv' = [inv EXCEPT ![i].pc = "metadata"]
          /\ UNCHANGED <<isLoading, error>>
     ELSE /\ isLoading' = FALSE
          /\ error' = ErrorText(outcome, NotReadableMsg)
          /\ inv' = [inv EXCEPT ![i] = DoneSlot(i)]
          /\ UNCHANGED streamRef
  /\ last' = Ev(IF outcome \in {"NotAllowedError", "NotFoundError"}
                 THEN outcome ELSE "other")
  /\ UNCHANGED <<propVars, gestureVars, isActive, animationRef, handsRef,
                 windowHands>>

\* new HandsClass, hands.onResults, handsRef.current = hands and the first
\* call of detectFrame: lines 702-776.
HandsCreated(i) ==
  /\ handsRef' = i
  /\ inv' = [inv EXCEPT ![i] =
               IF streamRef = "active"
               THEN [inv[i] EXCEPT !.pc = "sending", !.sentTo = i]
               ELSE DoneSlot(i)]

\* The video element answers: lines 665-700.
metadataDone(i, outcome) ==
  /\ rev = 2
  /\ inv[i].pc = "metadata"
  /\ IF outcome = "ok"
     THEN /\ isActive' = TRUE
          /\ isLoading' = FALSE
          /\ IF windowHands
             THEN HandsCreated(i)
             ELSE /\ inv' = [inv EXCEPT ![i].pc = "script"]
                  /\ UNCHANGED handsRef
          /\ UNCHANGED error
     ELSE /\ isLoading' = FALSE
          /\ error' = IF outcome = "playNotAllowed"
                      THEN ErrorText("NotAllowedError", "")
                      ELSE ErrorText("Error", VideoFailedMsg)
          /\ inv' = [inv EXCEPT ![i] = DoneSlot(i)]
          /\ UNCHANGED <<isActive, handsRef>>
  /\ last' = Ev("other")
  /\ UNCHANGED <<propVars, gestureVars, streamRef, animationRef, windowHands>>

\* drawVideoFrame, the camera-only loop: lines 781-795.
drawVideoFrame(i) ==
  IF streamRef = "active"
  THEN /\ animationRef' = i
       /\ inv' = [inv EXCEPT ![i].pc = "drawing"]
  ELSE /\ inv' = [inv EXCEPT ![i] = DoneSlot(i)]
       /\ UNCHANGED animationRef

\* The script tag of lines 691-699 loads or fails.
scriptDone(i, ok) ==
  /\ rev = 2
  /\ inv[i].pc = "script"
  /\ IF ok
     THEN /\ windowHands' = TRUE
          /\ HandsCreated(i)
          /\ UNCHANGED animationRef
     ELSE /\ drawVideoFrame(i)
          /\ UNCHANGED <<windowHands, handsRef>>
  /\ last' = Ev(IF ok THEN "other" ELSE "libraryFailed")
  /\ UNCHANGED <<propVars, gestureVars, isActive, isLoading, error, streamRef>>

----------------------------------------------------------------------------
(* startDetection, revision 1 (lines 204-261) *)

\* The click: lines 205-210, and on to line 213 when the script is loaded.
startDetection_r1 ==
  /\ rev = 1
  /\ ~isActive /\ ~isLoading
  /\ HasFreeSlot
  /\ error' = NULL
  /\ isLoading' = TRUE
  /\ IF windowHands
     THEN /\ handsRef' = FreeSlot
          /\ inv' = [inv EXCEPT ![FreeSlot] =
                       [pc |-> "getUserMedia", lang |-> language,
                        sentTo |-> 0, cam |-> TRUE]]
     ELSE /\ inv' = [inv EXCEPT ![FreeSlot] =
                       [pc |-> "initMediaPipe", lang |-> language,
                        sentTo |-> 0, cam |-> FALSE]]
          /\ UNCHANGED handsRef
  /\ last' = Ev("other")
  /\ UNCHANGED <<propVars, gestureVars, isActive, streamRef, animationRef,
                 windowHands>>

\* initializeMediaPipe settles: lines 87-144, then line 213 or lines 247-260.
initializeMediaPipeDone(i, ok) ==
  /\ rev = 1
  /\ inv[i].pc = "initMediaPipe"
  /\ IF ok
     THEN /\ windowHands' = TRUE
          /\ handsRef' = i
          /\ inv' = [inv EXCEPT ![i].pc = "getUserMedia", ![i].cam = TRUE]
          /\ UNCHANGED <<isLoading, error>>
     ELSE /\ error' = ErrorText("Error", HandTrackingMsg)
          /\ isLoading' = FALSE
          /\ inv' = [inv EXCEPT ![i] = DoneSlot(i)]
          /\ UNCHANGED <<windowHands, handsRef>>
  /\ last' = Ev(IF ok THEN "other" ELSE "libraryFailed")
  /\ UNCHANGED <<propVars, gestureVars, isActive, streamRef, animationRef>>

\* getUserMedia settles: lines 221-260.  The canvas of revision 1 is rendered
\* only while isActive (line 339), so canvasRef.current is null before that
\* and the block of lines 221-246 is skipped.
getUserMediaDone_r1(i, outcome) ==
  /\ rev = 1
  /\ inv[i].pc = "getUserMedia"
  /\ IF outcome = "ok"
     THEN IF isActive
          THEN /\ streamRef' = "active"
               /\ inv' = [inv EXCEPT ![i].pc = "metadata"]
               /\ UNCHANGED <<isLoading, error>>
          ELSE /\ isLoading' = FALSE
               /\ inv' = [inv EXCEPT ![i] = DoneSlot(i)]
               /\ UNCHANGED <<streamRef, error>>
     ELSE /\ error' = ErrorText(outcome, NotReadableMsg)
          /\ isLoading' = FALSE
          /\ inv' = [inv EXCEPT ![i] = DoneSlot(i)]
          /\ UNCHANGED streamRef
  /\ last' = Ev(IF outcome \in {"NotAllowedError", "NotFoundError"}
                 THEN outcome ELSE "other")
  /\ UNCHANGED <<propVars, gestureVars, isActive, animationRef, handsRef,
                 windowHands>>

----------------------------------------------------------------------------
(* processGesture (lines 592-640) *)

Min(a, b) == IF a < b THEN a ELSE b

RECURSIVE SumOver(_)
SumOver(S) ==
  IF S = {} THEN 0
  ELSE LET k == CHOOSE x \in S : TRUE
       IN  translating[k] + SumOver(S \ {k})

\* The number of translate-text calls in flight.
Pending == SumOver(TranslateKeys)

\* What translate-text answers for gesture g and target language lang.
TranslatedText(g, lang) ==
  [k \in 1..Len(Atoms(g)) |->
     IF Atoms(g)[k] = Space THEN Space ELSE lang \o ":" \o Atoms(g)[k]]

\* Mutant: the separator is written even before the first word.
appendText_alwaysSpace(prev, displayText) ==
  LET words == SplitWords(prev)
      lastWordSame == Len(words) > 0 /\ displayText = <<words[Len(words)]>>
  IN  IF ~lastWordSame THEN JoinSpace(prev, displayText) ELSE prev

\* The updater of setDetectedText: lines 627-636.
appendText(prev, displayText) ==
  LET words == SplitWords(prev)
      lastWordSame == Len(words) > 0 /\ displayText = <<words[Len(words)]>>
  IN  IF ~lastWordSame
      THEN IF prev # <<>> THEN JoinSpace(prev, displayText) ELSE displayText
      ELSE prev

setDetectedText(displayText) ==
  LET newText == appendText(detectedText, displayText)
  IN  /\ Len(detectedText) <= MaxTextLen
      /\ detectedText' = newText
      /\ onDetectionArg' = IF newText # detectedText
                           THEN CalledWith(newText)
                           ELSE onDetectionArg

\* Mutant: the counter is not restarted when the gesture changes.
nextCount_noRestart(gesture) == gestureCountRef + 1

\* The counter of lines 594-599.
nextCount(gesture) ==
  IF gesture = lastGestureRef THEN gestureCountRef + 1 ELSE 1

\* processGesture up to its first await (or to its end when lang is 'en');
\* lang is the language of the render whose processGesture was captured.
processGesture(gesture, conf, lang) ==
  LET count == nextCount(gesture)
      gap == IF sinceCommit < 0 THEN -1
             ELSE Min(sinceCommit + 1, StableCount)
  IN  /\ lastGestureRef' = gesture
      /\ IF count < StableCount
         THEN /\ gestureCountRef' = count
              /\ sinceCommit' = gap
              /\ last' = Ev("other")
              /\ UNCHANGED <<currentGesture, confidence, translating,
                             detectedText, onDetectionArg>>
         ELSE /\ currentGesture' = gesture
              /\ confidence' = conf
              /\ sinceCommit' = 0
              /\ last' = [op |-> "commit", gesture |-> gesture,
                          translate |-> lang # "en", gap |-> gap]
              /\ IF lang # "en"
                 THEN /\ Pending < MaxTranslating
                      /\ translating' =
                           [translating EXCEPT ![<<gesture, lang>>] = @ + 1]
                      /\ gestureCountRef' = count
                      /\ UNCHANGED <<detectedText, onDetectionArg>>
                 ELSE /\ setDetectedText(Atoms(gesture))
                      /\ gestureCountRef' = 0
                      /\ UNCHANGED translating

\* The translate-text call of lines 610-623 settles; lines 626-639 follow.
translateDone(gesture, lang, outcome) ==
  /\ translating[<<gesture, lang>>] > 0
  /\ translating' = [translating EXCEPT ![<<gesture, lang>>] = @ - 1]
  /\ setDetectedText(IF outcome = "translated"
                     THEN TranslatedText(gesture, lang)
                     ELSE Atoms(gesture))
  /\ gestureCountRef' = 0
  /\ last' = Ev("other")
  /\ UNCHANGED <<propVars, isActive, isLoading, error, streamRef,
                 animationRef, handsRef, windowHands, inv, currentGesture,
                 confidence, lastGestureRef, streak, sinceCommit>>

----------------------------------------------------------------------------
(* The per-frame loops of revision 2 *)

Streak(s, res) ==
  IF ~res.matched THEN [s EXCEPT !.all = 0]
  ELSE IF res.gesture = s.gesture
       THEN [s EXCEPT !.det = Min(@ + 1, StableCount),
                      !.all = Min(@ + 1, StableCount)]
       ELSE [gesture |-> res.gesture, det |-> 1, all |-> 1]

\* hands.onResults with a hand that passes the throttle: lines 742-756.
onResultsClassify(landmarkArray, lang) ==
  LET res == classifyGesture(landmarkArray)
  IN  /\ streak' = Streak(streak, res)
      /\ IF res.matched
         THEN processGesture(res.gesture, res.confidence, lang)
         ELSE /\ last' = Ev("other")
              /\ UNCHANGED <<detectedText, currentGesture, confidence,
                             lastGestureRef, gestureCountRef, translating,
                             onDetectionArg, sinceCommit>>

\* await handsRef.current.send(...) settles in detectFrame, and the next
\* frame is requested: lines 766-773.  Meanwhile the tracker has called
\* onResults with a hand that passes the throttle of line 744 (hand), or
\* with a throttled hand, with no hand or not at all (idle).
sendDone(i, kind, landmarks) ==
  /\ rev = 2
  /\ inv[i].pc = "sending"
  /\ IF kind = "hand"
     THEN onResultsClassify(landmarks, inv[inv[i].sentTo].lang)
     ELSE /\ last' = Ev("other")
          /\ UNCHANGED gestureVars
  /\ animationRef' = i
  /\ inv' = [inv EXCEPT ![i].pc = "scheduled", ![i].sentTo = 0]
  /\ UNCHANGED <<propVars, isActive, isLoading, error, streamRef, handsRef,
                 windowHands>>

\* The browser runs the requested frame: detectFrame (lines 765-774) or
\* drawVideoFrame (lines 781-794).
animationFrame(i) ==
  /\ rev = 2
  /\ inv[i].pc \in {"scheduled", "drawing"}
  /\ IF inv[i].pc = "scheduled"
     THEN /\ inv' = [inv EXCEPT ![i] =
                       IF handsRef # 0 /\ streamRef = "active"
                       THEN [inv[i] EXCEPT !.pc = "sending", !.sentTo = handsRef]
                       ELSE DoneSlot(i)]
          /\ UNCHANGED animationRef
     ELSE drawVideoFrame(i)
  /\ last' = Ev("other")
  /\ UNCHANGED <<propVars, gestureVars, isActive, isLoading, error,
                 streamRef, handsRef, windowHands>>

\* The click on "Stop Detection": lines 814-833.
stopDetection ==
  /\ isActive /\ ~isLoading
  /\ inv' = IF animationRef # 0 /\ inv[animationRef].pc \in {"scheduled", "drawing"}
            THEN [inv EXCEPT ![animationRef] = DoneSlot(animationRef)]
            ELSE inv
  /\ animationRef' = 0
  /\ streamRef' = "null"
  /\ handsRef' = 0
  /\ isActive' = FALSE
  /\ currentGesture' = ""
  /\ confidence' = 0
  /\ lastGestureRef' = ""
  /\ gestureCountRef' = 0
  /\ last' = Ev("other")
  /\ UNCHANGED <<propVars, isLoading, error, windowHands, detectedText,
                 translating, onDetectionArg, streak, sinceCommit>>

\* Mutant: the text is emptied and the parent is not told.
clearText_silent ==
  /\ detectedText # <<>>
  /\ detectedText' = <<>>
  /\ last' = Ev("clearText")
  /\ UNCHANGED <<propVars, isActive, isLoading, error, streamRef,
                 animationRef, handsRef, windowHands, inv, currentGesture,
                 confidence, lastGestureRef, gestureCountRef, translating,
                 streak, sinceCommit, onDetectionArg>>

\* The click on "Clear", a button rendered while detectedText is not empty:
\* lines 836-839 and 958-969 (282-285 and 394-407 in revision 1).
clearText ==
  /\ detectedText # <<>>
  /\ detectedText' = <<>>
  /\ onDetectionArg' = CalledWith(<<>>)
  /\ last' = Ev("clearText")
  /\ UNCHANGED <<propVars, isActive, isLoading, error, streamRef,
                 animationRef, handsRef, windowHands, inv, currentGesture,
                 confidence, lastGestureRef, gestureCountRef, translating,
                 streak, sinceCommit>>

\* The parent renders the component with another language.
setLanguage(l) ==
  /\ l # language
  /\ language' = l
  /\ last' = Ev("other")
  /\ UNCHANGED <<rev, slots, shown, frame, result, gestureVars, isActive,
                 isLoading, error, streamRef, animationRef, handsRef,
                 windowHands, inv>>

----------------------------------------------------------------------------
\* The handlers of revision 2.
Next2 ==
  \/ startDetection
  \/ \E i \in Slots, o \in CameraOutcomes : getUserMediaDone(i, o)
  \/ \E i \in Slots, o \in {"ok", "playNotAllowed", "videoError"} :
       metadataDone(i, o)
  \/ \E i \in Slots, ok \in BOOLEAN : scriptDone(i, ok)
  \/ \E i \in Slots, lm \in shown : sendDone(i, "hand", lm)
  \/ \E i \in Slots : sendDone(i, "idle", <<>>)
  \/ \E i \in Slots : animationFrame(i)
  \/ \E k \in TranslateKeys, o \in {"translated", "empty", "throws"} :
       translateDone(k[1], k[2], o)
  \/ stopDetection
  \/ clearText
  \/ \E l \in Languages : setLanguage(l)

\* The handlers of revision 1 that can run.
Next1 ==
  \/ startDetection_r1
  \/ \E i \in Slots, ok \in BOOLEAN : initializeMediaPipeDone(i, ok)
  \/ \E i \in Slots, o \in CameraOutcomes : getUserMediaDone_r1(i, o)
  \/ \E l \in Languages : setLanguage(l)

Next == Next1 \/ Next2

Spec == Init /\ [][Next]_vars

\* One detection session at a time, every hand of CameraFrames shown.
SessionInit ==
  /\ rev = 2
  /\ slots = 1
  /\ shown = CameraFrames
  /\ ComponentInit
  /\ frame = <<>>
  /\ result = NoMatch

SpecSession == SessionInit /\ [][Next2]_vars

----------------------------------------------------------------------------
(* classifyGesture on its own *)

ClassifyInit ==
  /\ rev = 2
  /\ slots = MaxSlots
  /\ shown = {}
  /\ ComponentInit
  /\ frame \in ClassifyInputs
  /\ result = NoMatch

Classify ==
  /\ last = Ev("init")
  /\ result' = classifyGesture(frame)
  /\ last' = Ev("classifyGesture")
  /\ UNCHANGED <<rev, slots, shown, language, frame, gestureVars,
                 isActive, isLoading, error, streamRef, animationRef,
                 handsRef, windowHands, inv>>

ClassifyNext == Classify

SpecClassify == ClassifyInit /\ [][ClassifyNext]_vars

----------------------------------------------------------------------------
(* Lemma: revision 1 never becomes active, since its canvas is rendered only
   while isActive and startDetection needs the canvas to go on. *)
Rev1NeverActive == rev = 1 => ~isActive /\ detectedText = <<>>

----------------------------------------------------------------------------
(* Claims *)

NineLabels ==
  {"Yes", "No", "Hello", "1", "2", "3", "4", "I Love You", "Thank You"}

\* C1: classifyGesture returns no match or one of the nine labels, and no
\* match whenever the input does not hold exactly 21 landmarks.  (That the
\* result depends on the landmarks alone is how the function is written: it
\* reads nothing but its argument.)
C1_ClassifyRange ==
  last.op = "classifyGesture" =>
    /\ result = NoMatch \/ (result.matched /\ result.gesture \in NineLabels)
    /\ Len(frame) # 21 => result = NoMatch

C1_Witness ==
  /\ last.op = "classifyGesture"
  /\ Len(frame) = 21
  /\ result.matched /\ result.gesture = "Thank You"

\* The signs the instructions of line 1007 list as supported.
SupportedSigns ==
  {"1", "2", "3", "4", "5", "Hello", "Yes", "No", "I Love You", "Thank You"}

\* C7: every sign listed as supported is the result of classifyGesture for
\* at least one input of 21 landmarks (stated of the states in which the
\* classifier has run).
C7_AllSupportedProduced ==
  last.op = "classifyGesture" =>
  \A s \in SupportedSigns :
    \E lm \in Frames21 :
      classifyGesture(lm).matched /\ classifyGesture(lm).gesture = s

\* The items detectedText is made of: a label, or a label translated.
Items ==
  {Atoms(g) : g \in NineLabels} \cup
  {TranslatedText(g, l) : g \in NineLabels, l \in Languages \ {"en"}}

RECURSIVE IsJoined(_)
IsJoined(text) ==
  \E it \in Items :
    \/ text = it
    \/ /\ Len(text) > Len(it) + 1
       /\ SubSeq(text, 1, Len(it)) = it
       /\ text[Len(it) + 1] = Space
       /\ IsJoined(SubSeq(text, Len(it) + 2, Len(text)))

\* C2: detectedText is empty, or labels (or translations of labels) joined
\* by single spaces, with no space at either end.
C2_TextIsJoinedLabels ==
  \/ detectedText = <<>>
  \/ /\ detectedText[1] # Space
     /\ detectedText[Len(detectedText)] # Space
     /\ \A k \in 1..(Len(detectedText) - 1) :
          ~(detectedText[k] = Space /\ detectedText[k + 1] = Space)
     /\ IsJoined(detectedText)

C2_Witness ==
  /\ ~isActive
  /\ detectedText = JoinSpace(Atoms("Yes"), TranslatedText("I Love You", "ta"))

\* C3: right after clearText the text is empty and onDetection has been
\* called with the empty string.
C3_ClearEmpties ==
  last.op = "clearText" =>
    detectedText = <<>> /\ onDetectionArg = [called |-> TRUE, text |-> <<>>]

C3_Witness == last.op = "clearText" /\ isActive /\ Pending > 0

\* C4 as claimed: every invocation of startDetection that has ended has
\* issued its camera request.
C4_EveryStartRequestsCamera ==
  \A i \in Slots : inv[i].pc = "done" => inv[i].cam

\* C4, amended: in revision 2 every invocation has issued its camera request
\* from the click on; in revision 1 an invocation without a camera request is
\* still loading the library, or has ended.
C4_CameraRequestedUnlessLibraryFirst ==
  \A i \in Slots :
    inv[i].pc # "idle" =>
      \/ inv[i].cam
      \/ rev = 1 /\ inv[i].pc \in {"initMediaPipe", "done"}

C4_Witness ==
  /\ rev = 2
  /\ isLoading
  /\ \E i \in Slots : inv[i].pc = "getUserMedia" /\ inv[i].cam
  /\ \E j \in Slots : inv[j].pc = "sending"

\* C5: after a camera request fails with NotAllowedError the error is the
\* 'Camera access denied' message, after NotFoundError the 'No camera found'
\* message; isActive and isLoading are false.
C5_CameraFailureMapped ==
  /\ last.op = "NotAllowedError" =>
       /\ error \in
            {"Camera access denied. Please allow camera access in your browser settings.",
             "Camera access denied. Please allow camera access in your browser settings and refresh the page."}
       /\ ~isActive /\ ~isLoading
  /\ last.op = "NotFoundError" =>
       /\ error = "No camera found. Please connect a camera and try again."
       /\ ~isActive /\ ~isLoading

C5_Witness ==
  /\ last.op = "NotFoundError"
  /\ rev = 2
  /\ \E j \in Slots : inv[j].pc = "sending"

\* C6 as claimed: after the load of the hand-tracking library has failed,
\* error is non-null.
C6_LibraryFailureSetsError ==
  last.op = "libraryFailed" => error # NULL

\* C6, amended: a failed load of the library sets the 'Failed to load hand
\* tracking' message and leaves the component inactive in revision 1; in
\* revision 2 it changes neither error nor isActive nor isLoading.
C6_LibraryFailureByRevision ==
  [][last'.op = "libraryFailed" =>
       IF rev = 1
       THEN /\ error' = "Failed to load hand tracking. Please try again."
            /\ ~isActive' /\ ~isLoading'
       ELSE /\ error' = error
            /\ isActive' = isActive
            /\ isLoading' = isLoading]_vars

C6_Witness ==
  /\ last.op = "libraryFailed"
  /\ rev = 2
  /\ isActive
  /\ error = NULL

\* C8: a committed gesture comes with a call of translate-text exactly when
\* the language is not 'en'.
C8_TranslateIffNotEnglish ==
  last.op = "commit" => (last.translate <=> language # "en")

\* C9 as claimed: at a commit the three most recent classifications all
\* returned the committed gesture.
C9_ThreeLatestClassifications ==
  last.op = "commit" => streak.gesture = last.gesture /\ streak.all >= 3

\* C9, amended: at a commit the three most recent classifications that
\* returned a gesture all returned the committed one; classifications with
\* no match in between do not count.
C9_ThreeLatestDetections ==
  last.op = "commit" =>
    /\ currentGesture = last.gesture
    /\ streak.gesture = last.gesture
    /\ streak.det >= 3

C9_Witness ==
  /\ last.op = "commit"
  /\ streak.det >= 3
  /\ streak.all < 3

\* C10: a commit that follows another comes after at least 3 calls of
\* processGesture since that one.
C10_ThreeCallsBetweenCommits ==
  last.op = "commit" => last.gap = -1 \/ last.gap >= 3

\* The text holds the words of label g twice in a row, a space between.
TwiceInSuccession(text, g) ==
  LET twice == Atoms(g) \o <<Space>> \o Atoms(g)
  IN  \E k \in 1..(Len(text) - Len(twice) + 1) :
        SubSeq(text, k, k + Len(twice) - 1) = twice

\* C11: detectedText never holds the same label twice in immediate
\* succession, for every one of the nine labels.
C11_NoLabelTwiceInSuccession ==
  \A g \in NineLabels : ~TwiceInSuccession(detectedText, g)

\* C12: a hand of 21 landmarks whose thumb tip and index tip are closer than
\* 0.1 and whose middle, ring and pinky fingers are extended is classified
\* "Thank You".
C12_OkSignIsThankYou ==
  (/\ last.op = "classifyGesture"
   /\ Len(frame) = 21
   /\ thumbIndexTouch(frame)
   /\ middleExtended(frame) /\ ringExtended(frame) /\ pinkyExtended(frame))
  => result.matched /\ result.gesture = "Thank You"

\* The fingers of frame f that are extended, as the set of their positions
\* in the order index, middle, ring, pinky.
ExtendedFingers(f) ==
  {k \in 1..4 :
     <<indexExtended(f), middleExtended(f), ringExtended(f),
       pinkyExtended(f)>>[k]}

DigitOf(n) == <<"1", "2", "3", "4">>[n]

\* C13: the digit n is returned exactly for the hands whose extended
\* non-thumb fingers are the first n of index, middle, ring, pinky, except
\* that all four with the thumb extended give "Hello".
C13_DigitsAreFirstFingers ==
  (last.op = "classifyGesture" /\ Len(frame) = 21) =>
    /\ \A n \in 1..4 :
         (result.matched /\ result.gesture = DigitOf(n)) <=>
           /\ ExtendedFingers(frame) = 1..n
           /\ ~(n = 4 /\ thumbExtended(frame))
    /\ (ExtendedFingers(frame) = 1..4 /\ thumbExtended(frame)) =>
         result.matched /\ result.gesture = "Hello"

C13_Witness ==
  /\ last.op = "classifyGesture"
  /\ Len(frame) = 21
  /\ result.matched /\ result.gesture = "1"
  /\ thumbExtended(frame)

\* A slot whose per-frame loop is running: a frame is with the tracker, or
\* the next frame is requested and will pass the test of detectFrame (of
\* drawVideoFrame) when it runs.
LoopRunning(i) ==
  \/ inv[i].pc = "sending"
  \/ inv[i].pc = "scheduled" /\ handsRef # 0 /\ streamRef = "active"
  \/ inv[i].pc = "drawing" /\ streamRef = "active"

\* C14: at most one per-frame loop is running.
C14_AtMostOneLoop ==
  Cardinality({i \in Slots : LoopRunning(i)}) <= 1

====
